---- MODULE Spec2Model ----
(***************************************************************************)
(* MikrotikControllerData (mikrotik_controller.py): the controller's       *)
(* shared tables, its two timers, and every method that reads the router   *)
(* and writes the tables.                                                  *)
(*                                                                         *)
(* A Python dict is a TLA+ function from strings; the interface table,     *)
(* whose iteration order decides get_iface_from_entry and the key_search   *)
(* merge, keeps its insertion order beside its rows.  A coroutine is a     *)
(* task: it runs from one real suspension (an executor job) to the next in *)
(* one step.  Task 0 is a caller that awaits the class's methods one at a  *)
(* time; tasks 1..MaxTasks are timer firings, which may overlap.           *)
(***************************************************************************)
EXTENDS Integers, Sequences, FiniteSets, TLC

VARIABLES data, listeners, unsubscribed, option_track_arp, reply, pc, entry, locals, log, fault

vars == <<data, listeners, unsubscribed, option_track_arp, reply, pc, entry, locals, log, fault>>

\* ---------------------------------------------------------------- bounds
\* timer firings that may be in flight together
MaxTasks == 2
\* records in one fetched batch
MaxBatch == 2
\* subscriptions made in a run
MaxListeners == 3

Tasks == 0..MaxTasks
Timers == 1..MaxTasks
\* the task that is no timer firing
Caller == CHOOSE t \in Tasks : t \notin Timers

\* ---------------------------------------------------------------- Python values
EmptyDict == [k \in {} |-> ""]
None == "<None>"
\* a Python int and a Python str held by the same field
PyInt(n) == <<"int", n>>
PyStr(s) == <<"str", s>>

\* `not x` for a uid: None and the empty string are both falsy
Falsy(x) == x \in {None, ""}

\* d[k] = v
SetItem(d, k, v) == (k :> v) @@ d

\* the insertion-ordered dict of interfaces
EmptyTable == [keys |-> <<>>, rows |-> EmptyDict]
Keys(t) == DOMAIN t.rows
SetRow(t, k, row) ==
    [keys |-> IF k \in DOMAIN t.rows THEN t.keys ELSE Append(t.keys, k),
     rows |-> SetItem(t.rows, k, row)]

\* sequences over S of length 0..n
SeqsUpTo(S, n) == UNION {[1..k -> S] : k \in 0..n}

\* ---------------------------------------------------------------- helper.py
\* from_entry(entry, param, default): the field, or the default when absent
from_entry(e, param, default) == IF param \in DOMAIN e THEN e[param] ELSE default

\* from_entry_bool(entry, param, default, reverse): coerce, then reverse; the
\* default is used as given when the field is absent
from_entry_bool(e, param, default, reverse) ==
    IF param \notin DOMAIN e THEN default
    ELSE IF reverse THEN ~(e[param] = TRUE) ELSE (e[param] = TRUE)

\* one field rule applied to a row
fill_val(row, e, v) ==
    LET src == IF "source" \in DOMAIN v THEN v.source ELSE v.name
        isbool == "type" \in DOMAIN v /\ v.type = "bool"
        rev == "reverse" \in DOMAIN v /\ v.reverse
    IN  IF src \in DOMAIN e
        THEN SetItem(row, v.name, IF isbool THEN from_entry_bool(e, src, FALSE, rev) ELSE e[src])
        ELSE IF "default" \in DOMAIN v
        THEN SetItem(row, v.name, v.default)
        ELSE IF "default_val" \in DOMAIN v /\ v.default_val \in DOMAIN row
        THEN SetItem(row, v.name, row[v.default_val])
        ELSE row

\* the field rules of `vals`, in order
RECURSIVE fill_vals(_, _, _)
fill_vals(row, e, vals) ==
    IF vals = <<>> THEN row
    ELSE fill_vals(fill_val(row, e, Head(vals)), e, Tail(vals))

\* the ensure rules: a default for each field the new row lacks
RECURSIVE fill_ensure_vals(_, _)
fill_ensure_vals(row, ensure) ==
    IF ensure = <<>> THEN row
    ELSE LET v == Head(ensure)
             r == IF v.name \in DOMAIN row THEN row
                  ELSE SetItem(row, v.name, IF "default" \in DOMAIN v THEN v.default ELSE "")
         IN  fill_ensure_vals(r, Tail(ensure))

\* key resolution: the record's own key field, or the first row (in table
\* order) whose key_search field equals the record's
RECURSIVE search_uid(_, _, _, _)
search_uid(t, ks, e, field) ==
    IF ks = <<>> THEN None
    ELSE IF field \in DOMAIN t.rows[Head(ks)] /\ t.rows[Head(ks)][field] = e[field]
    THEN Head(ks)
    ELSE search_uid(t, Tail(ks), e, field)

get_uid(t, e, key, key_search) ==
    IF key # None
    THEN (IF key \in DOMAIN e THEN e[key] ELSE None)
    ELSE IF key_search \in DOMAIN e THEN search_uid(t, t.keys, e, key_search)
    ELSE None

\* from_list(data, source, key, key_search, vals, ensure_vals)
RECURSIVE from_list(_, _, _, _, _, _)
from_list(t, source, key, key_search, vals, ensure) ==
    IF source = <<>> THEN t
    ELSE LET e == Head(source)
             uid == get_uid(t, e, key, key_search)
             row0 == IF uid \in Keys(t) THEN t.rows[uid] ELSE fill_ensure_vals(EmptyDict, ensure)
             t1 == IF uid = None THEN t ELSE SetRow(t, uid, fill_vals(row0, e, vals))
         IN  from_list(t1, Tail(source), key, key_search, vals, ensure)

\* ---------------------------------------------------------------- router replies
\* /interface
RawInterface ==
    { ("default-name" :> "ether1" @@ "name" :> "ether1" @@ "type" :> "ether" @@
       "running" :> TRUE @@ "disabled" :> FALSE @@ "mac-address" :> "P1"),
      ("default-name" :> "ether1" @@ "name" :> "wan" @@ "disabled" :> TRUE),
      ("default-name" :> "ether2" @@ "name" :> "wan"),
      ("name" :> "bridge" @@ "type" :> "bridge") }

\* the traffic monitor
RawTraffic ==
    { ("name" :> "ether1" @@ "rx-bits-per-second" :> 500 @@ "tx-bits-per-second" :> 100),
      ("name" :> "wan" @@ "rx-bits-per-second" :> 700) }

\* /ip/arp
RawArp ==
    { ("invalid" :> FALSE @@ "interface" :> "ether1" @@ "mac-address" :> "M1" @@
       "address" :> "10.0.0.1"),
      ("invalid" :> FALSE @@ "interface" :> "ether1" @@ "mac-address" :> "M2" @@
       "address" :> "10.0.0.2"),
      ("invalid" :> FALSE @@ "interface" :> "wan" @@ "mac-address" :> "M3" @@
       "address" :> "10.0.0.3"),
      ("invalid" :> TRUE @@ "interface" :> "ether1" @@ "mac-address" :> "M4" @@
       "address" :> "10.0.0.4"),
      ("invalid" :> FALSE @@ "interface" :> "bridge" @@ "mac-address" :> "M5" @@
       "address" :> "10.0.0.5"),
      ("invalid" :> TRUE @@ "interface" :> "bridge" @@ "mac-address" :> "M6" @@
       "address" :> "10.0.0.6") }

\* /interface/bridge/host
RawBridgeHost ==
    { ("local" :> FALSE @@ "interface" :> "ether1" @@ "mac-address" :> "M5"),
      ("local" :> FALSE @@ "interface" :> "wan" @@ "mac-address" :> "M7"),
      ("local" :> TRUE @@ "interface" :> "ether1" @@ "mac-address" :> "P1") }

\* /ip/firewall/nat
RawNat ==
    { (".id" :> "*1" @@ "action" :> "dst-nat" @@ "protocol" :> "tcp" @@ "dst-port" :> "80" @@
       "to-addresses" :> "192.168.0.2" @@ "to-ports" :> "8080" @@ "disabled" :> FALSE),
      (".id" :> "*1" @@ "action" :> "dst-nat" @@ "protocol" :> "udp" @@ "dst-port" :> "53" @@
       "in-interface" :> "wan" @@ "disabled" :> TRUE @@ "comment" :> "dns"),
      (".id" :> "*2" @@ "action" :> "masquerade"),
      (".id" :> "*2" @@ "action" :> "dst-nat") }

\* /system/resource
RawResource ==
    { ("platform" :> "MikroTik" @@ "board-name" :> "hEX" @@ "version" :> "6.45" @@
       "uptime" :> "1d" @@ "cpu-load" :> "3" @@ "total-memory" :> 1000 @@
       "free-memory" :> 250 @@ "total-hdd-space" :> 8 @@ "free-hdd-space" :> 7),
      ("platform" :> "MikroTik" @@ "total-memory" :> 0 @@ "free-memory" :> 0 @@
       "total-hdd-space" :> 1000 @@ "free-hdd-space" :> 250),
      ("platform" :> "MikroTik" @@ "total-memory" :> 1000 @@ "free-memory" :> 250 @@
       "total-hdd-space" :> 0 @@ "free-hdd-space" :> 0),
      ("platform" :> "x86" @@ "total-memory" :> 1000) }

\* /system/routerboard
RawRouterboard ==
    { ("routerboard" :> TRUE @@ "model" :> "RB750Gr3" @@ "serial-number" :> "S1" @@
       "current-firmware" :> "6.45"),
      ("routerboard" :> FALSE) }

NewVersion == "New version is available"

\* /system/package/update
RawFirmware ==
    { ("status" :> "New version is available" @@ "channel" :> "stable" @@
       "installed-version" :> "6.45" @@ "latest-version" :> "6.46"),
      ("status" :> "System is already up to date" @@ "channel" :> "stable" @@
       "installed-version" :> "6.46" @@ "latest-version" :> "6.46"),
      ("channel" :> "testing") }

\* /system/script
RawScript ==
    { ("name" :> "backup" @@ "last-started" :> "jan/01" @@ "run-count" :> "3"),
      ("name" :> "reboot"),
      ("name" :> ""),
      ("owner" :> "admin") }

\* what one fetch can return: nothing, or up to MaxBatch records
Batches(S) == SeqsUpTo(S, MaxBatch)

\* ---------------------------------------------------------------- get_interface
interface_vals ==
    << [name |-> "default-name"],
       [name |-> "name", default_val |-> "default-name"],
       [name |-> "type", default |-> "unknown"],
       [name |-> "running", type |-> "bool"],
       [name |-> "enabled", source |-> "disabled", type |-> "bool", reverse |-> TRUE],
       [name |-> "port-mac-address", source |-> "mac-address"],
       [name |-> "comment"],
       [name |-> "last-link-down-time"],
       [name |-> "last-link-up-time"],
       [name |-> "link-downs"],
       [name |-> "tx-queue-drop"],
       [name |-> "actual-mtu"] >>

interface_ensure_vals ==
    << [name |-> "client-ip-address"],
       [name |-> "client-mac-address"],
       [name |-> "rx-bits-per-second", default |-> 0],
       [name |-> "tx-bits-per-second", default |-> 0] >>

traffic_vals ==
    << [name |-> "rx-bits-per-second", default |-> 0],
       [name |-> "tx-bits-per-second", default |-> 0] >>

\* a variant of the merge that applies the rate rules to every record too,
\* so that a record without rates writes their defaults
merge_interface_defaulting(t, source) ==
    from_list(t, source, "default-name", None, interface_vals \o traffic_vals,
              interface_ensure_vals)

\* the merge of a fetched /interface batch into the interface table
merge_interface(t, source) ==
    from_list(t, source, "default-name", None, interface_vals, interface_ensure_vals)

\* the merge of a fetched traffic batch, matched by display name
merge_traffic(t, source) ==
    from_list(t, source, None, "name", traffic_vals, <<>>)

\* the comma-joined display names, in table order
RECURSIVE join_names(_, _)
join_names(t, ks) ==
    IF ks = <<>> THEN ""
    ELSE IF Len(ks) = 1 THEN t.rows[Head(ks)]["name"]
    ELSE t.rows[Head(ks)]["name"] \o "," \o join_names(t, Tail(ks))

\* ---------------------------------------------------------------- get_interface_client
\* the first interface, in table order, whose display name is `name`
RECURSIVE iface_scan(_, _, _)
iface_scan(t, ks, name) ==
    IF ks = <<>> THEN None
    ELSE IF t.rows[Head(ks)]["name"] = name THEN t.rows[Head(ks)]["default-name"]
    ELSE iface_scan(t, Tail(ks), name)

\* a variant that falls back on the record's interface name
get_iface_or_name(t, e) ==
    IF iface_scan(t, t.keys, e["interface"]) = None THEN e["interface"]
    ELSE iface_scan(t, t.keys, e["interface"])

\* lines 328-336
get_iface_from_entry(t, e) == iface_scan(t, t.keys, e["interface"])

\* a variant of arp_add: the last record of an interface wins
arp_add_last_wins(arp, uid, e) ==
    SetItem(arp, uid, [interface |-> uid] @@ ("mac-address" :> from_entry(e, "mac-address", "")
                                              @@ "address" :> from_entry(e, "address", "")))

\* lines 280-286: one resolved ARP record written to the ARP table
arp_add(arp, uid, e) ==
    LET r0 == IF uid \in DOMAIN arp THEN arp[uid] ELSE EmptyDict
        r1 == SetItem(r0, "interface", uid)
        r2 == SetItem(r1, "mac-address",
                      IF "mac-address" \notin DOMAIN r1 THEN from_entry(e, "mac-address", "")
                      ELSE "multiple")
        r3 == SetItem(r2, "address",
                      IF "address" \notin DOMAIN r2 THEN from_entry(e, "address", "")
                      ELSE "multiple")
    IN  SetItem(arp, uid, r3)

\* a variant of update_arp that looks at the interface before the invalid flag
RECURSIVE update_arp_bridge_first(_, _, _)
update_arp_bridge_first(st, t, batch) ==
    IF batch = <<>> THEN st
    ELSE LET e == Head(batch)
             uid == get_iface_from_entry(t, e)
             st1 == IF e["interface"] = "bridge"
                    THEN [st EXCEPT !.bridge_used = TRUE,
                                    !.mac2ip = IF "mac-address" \in DOMAIN e /\ "address" \in DOMAIN e
                                               THEN SetItem(@, e["mac-address"], e["address"])
                                               ELSE @]
                    ELSE IF e["invalid"] \/ Falsy(uid) THEN st
                    ELSE [st EXCEPT !.arp = arp_add(@, uid, e)]
         IN  update_arp_bridge_first(st1, t, Tail(batch))

\* lines 259-288: the loop over the fetched ARP records;
\* st = [arp, mac2ip, bridge_used]
RECURSIVE update_arp(_, _, _)
update_arp(st, t, batch) ==
    IF batch = <<>> THEN st
    ELSE LET e == Head(batch)
             uid == get_iface_from_entry(t, e)
             st1 == IF e["invalid"] THEN st
                    ELSE IF e["interface"] = "bridge"
                    THEN [st EXCEPT !.bridge_used = TRUE,
                                    !.mac2ip = IF "mac-address" \in DOMAIN e /\ "address" \in DOMAIN e
                                               THEN SetItem(@, e["mac-address"], e["address"])
                                               ELSE @]
                    ELSE IF Falsy(uid) THEN st
                    ELSE [st EXCEPT !.arp = arp_add(@, uid, e)]
         IN  update_arp(st1, t, Tail(batch))

\* a variant of host_add that collapses the MAC and leaves the address
host_add_mac_only(arp, uid, e, mac2ip) ==
    LET r0 == IF uid \in DOMAIN arp THEN arp[uid] ELSE EmptyDict
        r1 == SetItem(r0, "interface", uid)
        mac == from_entry(e, "mac-address", "")
        r2 == IF "mac-address" \in DOMAIN r1
              THEN SetItem(r1, "mac-address", "multiple")
              ELSE SetItem(SetItem(r1, "mac-address", mac), "address",
                           IF mac \in DOMAIN mac2ip THEN mac2ip[mac] ELSE "")
    IN  SetItem(arp, uid, r2)

\* lines 311-321: one resolved bridge host written to the ARP table
host_add(arp, uid, e, mac2ip) ==
    LET r0 == IF uid \in DOMAIN arp THEN arp[uid] ELSE EmptyDict
        r1 == SetItem(r0, "interface", uid)
        mac == from_entry(e, "mac-address", "")
        r2 == IF "mac-address" \in DOMAIN r1
              THEN SetItem(SetItem(r1, "mac-address", "multiple"), "address", "multiple")
              ELSE SetItem(SetItem(r1, "mac-address", mac), "address",
                           IF mac \in DOMAIN mac2ip THEN mac2ip[mac] ELSE "")
    IN  SetItem(arp, uid, r2)

\* lines 299-323: the loop over the fetched bridge hosts
RECURSIVE update_bridge_hosts(_, _, _, _)
update_bridge_hosts(arp, mac2ip, t, batch) ==
    IF batch = <<>> THEN arp
    ELSE LET e == Head(batch)
             uid == get_iface_from_entry(t, e)
             arp1 == IF e["local"] \/ Falsy(uid) THEN arp ELSE host_add(arp, uid, e, mac2ip)
         IN  update_bridge_hosts(arp1, mac2ip, t, Tail(batch))

\* lines 241-246: the ARP table copied onto the interfaces it names
map_arp(t, arp) ==
    [t EXCEPT !.rows =
        [uid \in DOMAIN t.rows |->
            IF uid \notin DOMAIN arp THEN t.rows[uid]
            ELSE SetItem(SetItem(t.rows[uid], "client-ip-address", from_entry(arp[uid], "address", "")),
                         "client-mac-address", from_entry(arp[uid], "mac-address", ""))]]

\* a variant of reset_arp: the table is carried over
reset_arp_kept(arp) == arp

\* line 224: the ARP table a pass starts from
reset_arp(arp) == EmptyDict

\* a variant of disable_clients: only the address is marked
disable_clients_ip_only(t) ==
    [t EXCEPT !.rows =
        [uid \in DOMAIN t.rows |-> SetItem(t.rows[uid], "client-ip-address", "disabled")]]

\* lines 228-230: tracking disabled
disable_clients(t) ==
    [t EXCEPT !.rows =
        [uid \in DOMAIN t.rows |->
            SetItem(SetItem(t.rows[uid], "client-ip-address", "disabled"),
                    "client-mac-address", "disabled")]]

\* ---------------------------------------------------------------- get_nat
\* lines 352-363: one dst-nat rule written to the NAT table
nat_add(nat, e) ==
    LET uid == e[".id"]
        r0 == IF uid \in DOMAIN nat THEN nat[uid] ELSE EmptyDict
        r1 == SetItem(r0, "name", e["protocol"] \o ":" \o e["dst-port"])
        r2 == SetItem(r1, ".id", from_entry(e, ".id", ""))
        r3 == SetItem(r2, "protocol", from_entry(e, "protocol", ""))
        r4 == SetItem(r3, "dst-port", from_entry(e, "dst-port", ""))
        r5 == SetItem(r4, "in-interface", from_entry(e, "in-interface", "any"))
        r6 == SetItem(r5, "to-addresses", from_entry(e, "to-addresses", ""))
        r7 == SetItem(r6, "to-ports", from_entry(e, "to-ports", ""))
        r8 == SetItem(r7, "comment", from_entry(e, "comment", ""))
        r9 == SetItem(r8, "enabled", from_entry_bool(e, "disabled", TRUE, TRUE))
    IN  SetItem(nat, uid, r9)

\* a variant of get_nat in which each rule written replaces the table
RECURSIVE get_nat_replacing(_, _)
get_nat_replacing(nat, batch) ==
    IF batch = <<>> THEN [val |-> nat, exc |-> None]
    ELSE LET e == Head(batch)
         IN  IF e["action"] # "dst-nat" THEN get_nat_replacing(nat, Tail(batch))
             ELSE IF "protocol" \notin DOMAIN e \/ "dst-port" \notin DOMAIN e
             THEN [val |-> IF e[".id"] \in DOMAIN nat THEN nat ELSE SetItem(nat, e[".id"], EmptyDict),
                   exc |-> "KeyError"]
             ELSE get_nat_replacing(nat_add(EmptyDict, e), Tail(batch))

\* lines 347-365: the loop over the fetched rules; a rule without protocol or
\* dst-port raises KeyError at line 355, after line 353 created its row.
\* The result is [val, exc].
RECURSIVE get_nat(_, _)
get_nat(nat, batch) ==
    IF batch = <<>> THEN [val |-> nat, exc |-> None]
    ELSE LET e == Head(batch)
         IN  IF e["action"] # "dst-nat" THEN get_nat(nat, Tail(batch))
             ELSE IF "protocol" \notin DOMAIN e \/ "dst-port" \notin DOMAIN e
             THEN [val |-> IF e[".id"] \in DOMAIN nat THEN nat ELSE SetItem(nat, e[".id"], EmptyDict),
                   exc |-> "KeyError"]
             ELSE get_nat(nat_add(nat, e), Tail(batch))

\* ---------------------------------------------------------------- get_system_routerboard
RECURSIVE get_system_routerboard(_, _)
get_system_routerboard(rb, batch) ==
    IF batch = <<>> THEN rb
    ELSE LET e == Head(batch)
             r1 == SetItem(rb, "routerboard", from_entry_bool(e, "routerboard", FALSE, FALSE))
             r2 == SetItem(r1, "model", from_entry(e, "model", "unknown"))
             r3 == SetItem(r2, "serial-number", from_entry(e, "serial-number", "unknown"))
             r4 == SetItem(r3, "firmware", from_entry(e, "current-firmware", "unknown"))
         IN  get_system_routerboard(r4, Tail(batch))

\* ---------------------------------------------------------------- get_system_resource
\* round(x) of Python 3 for x = 100 * (total - free) / total: to the nearest
\* integer, a tie to the even one
usage(total, free) ==
    LET n == 100 * (total - free)
        q == n \div total
        r == n % total
    IN  IF 2 * r < total THEN q
        ELSE IF 2 * r > total THEN q + 1
        ELSE IF q % 2 = 0 THEN q ELSE q + 1

\* lines 394-398
resource_copy(res, e) ==
    LET r1 == SetItem(res, "platform", from_entry(e, "platform", "unknown"))
        r2 == SetItem(r1, "board-name", from_entry(e, "board-name", "unknown"))
        r3 == SetItem(r2, "version", from_entry(e, "version", "unknown"))
        r4 == SetItem(r3, "uptime", from_entry(e, "uptime", "unknown"))
    IN  SetItem(r4, "cpu-load", from_entry(e, "cpu-load", "unknown"))

\* lines 399-407: is the usage of `total`/`free` computed, and does it divide by zero
HasCounters(e, total, free) == free \in DOMAIN e /\ total \in DOMAIN e
DividesByZero(e, total, free) == HasCounters(e, total, free) /\ e[total] = 0

resource_usage(res, e, field, total, free) ==
    SetItem(res, field, IF HasCounters(e, total, free) THEN PyInt(usage(e[total], e[free]))
                        ELSE PyStr("unknown"))

\* lines 393-409: the loop over the fetched records; the division at line 400
\* or 405 raises ZeroDivisionError on a zero total, with the fields written so
\* far kept.  The result is [val, exc].
RECURSIVE get_system_resource(_, _)
get_system_resource(res, batch) ==
    IF batch = <<>> THEN [val |-> res, exc |-> None]
    ELSE LET e == Head(batch)
             r1 == resource_copy(res, e)
             r2 == resource_usage(r1, e, "memory-usage", "total-memory", "free-memory")
             r3 == resource_usage(r2, e, "hdd-usage", "total-hdd-space", "free-hdd-space")
         IN  IF DividesByZero(e, "total-memory", "free-memory")
             THEN [val |-> r1, exc |-> "ZeroDivisionError"]
             ELSE IF DividesByZero(e, "total-hdd-space", "free-hdd-space")
             THEN [val |-> r2, exc |-> "ZeroDivisionError"]
             ELSE get_system_resource(r3, Tail(batch))

\* ---------------------------------------------------------------- get_firmware_update
\* a variant of fw_available: a record without status means no update
fw_available_not_sticky(fw, e) ==
    SetItem(fw, "available", "status" \in DOMAIN e /\ e["status"] = NewVersion)

\* a variant of lines 421-424 that records nothing for a record without status
fw_available_status_only(fw, e) ==
    IF "status" \in DOMAIN e THEN SetItem(fw, "available", e["status"] = NewVersion) ELSE fw

\* lines 421-424
fw_available(fw, e) ==
    IF "status" \in DOMAIN e THEN SetItem(fw, "available", e["status"] = NewVersion)
    ELSE IF "available" \notin DOMAIN fw THEN SetItem(fw, "available", FALSE)
    ELSE fw

\* lines 420-429
RECURSIVE get_firmware_update(_, _)
get_firmware_update(fw, batch) ==
    IF batch = <<>> THEN fw
    ELSE LET e == Head(batch)
             r1 == fw_available(fw, e)
             r2 == SetItem(r1, "channel", from_entry(e, "channel", "unknown"))
             r3 == SetItem(r2, "installed-version", from_entry(e, "installed-version", "unknown"))
             r4 == SetItem(r3, "latest-version", from_entry(e, "latest-version", "unknown"))
         IN  get_firmware_update(r4, Tail(batch))

\* ---------------------------------------------------------------- get_script
\* lines 448-454
script_add(script, e) ==
    LET uid == e["name"]
        r0 == IF uid \in DOMAIN script THEN script[uid] ELSE EmptyDict
        r1 == SetItem(r0, "name", from_entry(e, "name", ""))
        r2 == SetItem(r1, "last-started", from_entry(e, "last-started", "unknown"))
        r3 == SetItem(r2, "run-count", from_entry(e, "run-count", "unknown"))
    IN  SetItem(script, uid, r3)

\* a variant of script_skipped: only a missing name is skipped
script_skipped_missing_only(e) == "name" \notin DOMAIN e

\* lines 441-446: is the record skipped
script_skipped(e) == "name" \notin DOMAIN e \/ e["name"] = ""

\* lines 440-456
RECURSIVE get_script(_, _)
get_script(script, batch) ==
    IF batch = <<>> THEN script
    ELSE IF script_skipped(Head(batch)) THEN get_script(script, Tail(batch))
    ELSE get_script(script_add(script, Head(batch)), Tail(batch))

\* ---------------------------------------------------------------- state
\* pc[t]: "idle" before the task's first call; the method whose executor job
\* the task awaits ("get_interface" line 169, "get_interface_traffic" line 210,
\* "update_arp" line 255, "update_bridge_hosts" line 295); "done" after a
\* return and "raised" after an exception left the entry method.
\* entry[t]: the method the task was started with.  locals[t]: mac2ip and
\* bridge_used of get_interface_client, interface_list of get_interface_traffic.  log[t]: what the task did since it
\* started, in order.  fault[t]: the exception that ended it.
\* reply: the path and the records of the reply the last step received, or
\* NoReply when the last step received none.
NoReply == [path |-> None, data |-> <<>>]
NoLocals == [mac2ip |-> EmptyDict, bridge_used |-> FALSE, interface_list |-> ""]
Free(t) == pc[t] \in {"idle", "done", "raised"}

SIGNAL == "signal"
WriteEvents == {"write:" \o k : k \in {"routerboard", "resource", "interface", "arp", "nat",
                                       "fw-update", "script"}}

\* __init__, lines 33-47
Init ==
    /\ data = ("routerboard" :> EmptyDict @@ "resource" :> EmptyDict @@
               "interface" :> EmptyTable @@ "arp" :> EmptyDict @@ "nat" :> EmptyDict @@
               "fw-update" :> EmptyDict @@ "script" :> EmptyDict)
    /\ listeners = <<>>
    /\ unsubscribed = <<>>
    /\ option_track_arp = TRUE
    /\ reply = NoReply
    /\ pc = [t \in Tasks |-> "idle"]
    /\ entry = [t \in Tasks |-> None]
    /\ locals = [t \in Tasks |-> NoLocals]
    /\ log = [t \in Tasks |-> <<>>]
    /\ fault = [t \in Tasks |-> None]

\* a timer firing takes the first task that is not running
FirstFree(t) == t \in Timers /\ Free(t) /\ \A u \in Timers : u < t => ~Free(u)

\* the task starts running `name`
Begin(t, name) ==
    /\ entry' = [entry EXCEPT ![t] = name]
    /\ fault' = [fault EXCEPT ![t] = None]

\* ---------------------------------------------------------------- the firmware check
\* get_firmware_update, lines 414-429, as the events it adds to a task's log
fw_events(batch) ==
    <<"call:get_firmware_update", "fetch:/system/package/update">>
    \o (IF batch = <<>> THEN <<>> ELSE <<"write:fw-update">>)

\* async_fwupdate_check, lines 111-117
fwupdate_check_events(batch) ==
    <<"call:async_fwupdate_check">> \o fw_events(batch) \o <<SIGNAL>>

\* a variant of the check that empties the interface table as well
async_fwupdate_check_clearing(d, batch) ==
    [d EXCEPT !["fw-update"] = get_firmware_update(@, batch), !["interface"] = EmptyTable]

\* async_fwupdate_check, lines 111-117, as a function of the tables and the reply
async_fwupdate_check(d, batch) ==
    [d EXCEPT !["fw-update"] = get_firmware_update(@, batch)]

\* force_fwupdate_check, lines 62-65: the hourly timer fires; the check has no
\* suspension, so it runs to its end in one step
force_fwupdate_check(t) ==
    /\ FirstFree(t)
    /\ \E batch \in Batches(RawFirmware) :
        /\ data' = async_fwupdate_check(data, batch)
        /\ log' = [log EXCEPT ![t] = fwupdate_check_events(batch)]
        /\ reply' = [path |-> "/system/package/update", data |-> batch]
    /\ Begin(t, "force_fwupdate_check")
    /\ pc' = [pc EXCEPT ![t] = "done"]
    /\ locals' = [locals EXCEPT ![t] = NoLocals]
    /\ UNCHANGED <<listeners, unsubscribed, option_track_arp>>

\* ---------------------------------------------------------------- the fast cycle
\* force_update -> async_update, lines 54-57 and 122-128: the scan timer fires;
\* the inline firmware check when no availability is recorded, then
\* get_interface up to its executor job
force_update(t) ==
    /\ FirstFree(t)
    /\ IF "available" \notin DOMAIN data["fw-update"]
       THEN \E batch \in Batches(RawFirmware) :
               /\ data' = async_fwupdate_check(data, batch)
               /\ log' = [log EXCEPT ![t] = <<"call:async_update">> \o fwupdate_check_events(batch)
                                             \o <<"call:get_interface">>]
               /\ reply' = [path |-> "/system/package/update", data |-> batch]
       ELSE /\ log' = [log EXCEPT ![t] = <<"call:async_update", "call:get_interface">>]
            /\ reply' = NoReply
            /\ UNCHANGED data
    /\ Begin(t, "force_update")
    /\ pc' = [pc EXCEPT ![t] = "get_interface"]
    /\ locals' = [locals EXCEPT ![t] = NoLocals]
    /\ UNCHANGED <<listeners, unsubscribed, option_track_arp>>

\* get_interface, lines 165-194, from the reply of its executor job: the merge
\* is assigned to the table, and line 193 then reads interface_list, a name
\* that get_interface never binds: NameError.  get_interface_traffic is not
\* entered, and the exception leaves get_interface and whatever awaited it
\* (async_update at line 128, force_update at line 56).
get_interface_reply(t) ==
    /\ pc[t] = "get_interface"
    /\ \E batch \in Batches(RawInterface) :
        /\ data' = [data EXCEPT !["interface"] = merge_interface(@, batch)]
        /\ reply' = [path |-> "/interface", data |-> batch]
    /\ log' = [log EXCEPT ![t] = @ \o <<"fetch:/interface", "write:interface">>]
    /\ fault' = [fault EXCEPT ![t] = "NameError"]
    /\ pc' = [pc EXCEPT ![t] = "raised"]
    /\ UNCHANGED <<listeners, unsubscribed, option_track_arp, entry, locals>>

\* ---------------------------------------------------------------- methods called one at a time
\* the caller awaits each call before it makes the next
CallerStarts(name) ==
    /\ Free(Caller)
    /\ Begin(Caller, name)

\* get_interface, lines 165-169, up to its executor job
call_get_interface ==
    /\ CallerStarts("get_interface")
    /\ log' = [log EXCEPT ![Caller] = <<"call:get_interface">>]
    /\ pc' = [pc EXCEPT ![Caller] = "get_interface"]
    /\ locals' = [locals EXCEPT ![Caller] = NoLocals]
    /\ reply' = NoReply
    /\ UNCHANGED <<data, listeners, unsubscribed, option_track_arp>>

\* get_interface_traffic, lines 199-210, up to its executor job: the argument
\* is overwritten by the names joined from the table
call_get_interface_traffic ==
    /\ CallerStarts("get_interface_traffic")
    /\ log' = [log EXCEPT ![Caller] = <<"call:get_interface_traffic">>]
    /\ pc' = [pc EXCEPT ![Caller] = "get_interface_traffic"]
    /\ locals' = [locals EXCEPT ![Caller] =
                    [NoLocals EXCEPT !.interface_list =
                        join_names(data["interface"], data["interface"].keys)]]
    /\ reply' = NoReply
    /\ UNCHANGED <<data, listeners, unsubscribed, option_track_arp>>

\* get_interface_traffic, lines 208-217, from the reply of its executor job
get_interface_traffic_reply(t) ==
    /\ pc[t] = "get_interface_traffic"
    /\ \E batch \in Batches(RawTraffic) :
        /\ data' = [data EXCEPT !["interface"] = merge_traffic(@, batch)]
        /\ reply' = [path |-> "get_traffic:" \o locals[t].interface_list, data |-> batch]
    /\ log' = [log EXCEPT ![t] = @ \o <<"fetch:get_traffic", "write:interface">>]
    /\ pc' = [pc EXCEPT ![t] = "done"]
    /\ UNCHANGED <<listeners, unsubscribed, option_track_arp, entry, locals, fault>>

\* config_entry.options, read at line 73, changed by the options flow
update_options ==
    /\ option_track_arp' = ~option_track_arp
    /\ reply' = NoReply
    /\ UNCHANGED <<data, listeners, unsubscribed, pc, entry, locals, log, fault>>

\* get_interface_client, lines 222-235: the ARP table is reset; with tracking
\* disabled every interface is marked and the pass returns, otherwise the
\* pass goes on to update_arp, up to its executor job
call_get_interface_client ==
    /\ CallerStarts("get_interface_client")
    /\ IF ~option_track_arp
       THEN /\ data' = [data EXCEPT !["arp"] = reset_arp(@),
                                    !["interface"] = disable_clients(@)]
            /\ log' = [log EXCEPT ![Caller] =
                         <<"call:get_interface_client", "write:arp">>
                         \o (IF Keys(data["interface"]) = {} THEN <<>> ELSE <<"write:interface">>)]
            /\ pc' = [pc EXCEPT ![Caller] = "done"]
       ELSE /\ data' = [data EXCEPT !["arp"] = reset_arp(@)]
            /\ log' = [log EXCEPT ![Caller] =
                         <<"call:get_interface_client", "write:arp", "call:update_arp">>]
            /\ pc' = [pc EXCEPT ![Caller] = "update_arp"]
    /\ locals' = [locals EXCEPT ![Caller] = NoLocals]
    /\ reply' = NoReply
    /\ UNCHANGED <<listeners, unsubscribed, option_track_arp>>

\* the events of the projection, lines 241-246
map_arp_events(t, arp) ==
    IF Keys(t) \cap DOMAIN arp = {} THEN <<>> ELSE <<"write:interface">>

\* update_arp, lines 255-288, from the reply of its executor job, and back in
\* get_interface_client, lines 235-248: with a bridge record seen the pass goes
\* on to update_bridge_hosts, up to its executor job; otherwise it projects
\* the ARP table and returns
update_arp_reply(t) ==
    /\ pc[t] = "update_arp"
    /\ \E batch \in Batches(RawArp) :
        LET st == update_arp([arp |-> data["arp"], mac2ip |-> locals[t].mac2ip,
                              bridge_used |-> locals[t].bridge_used],
                             data["interface"], batch)
            wrote == IF st.arp = data["arp"] THEN <<>> ELSE <<"write:arp">>
        IN  /\ reply' = [path |-> "/ip/arp", data |-> batch]
            /\ locals' = [locals EXCEPT ![t].mac2ip = st.mac2ip,
                                         ![t].bridge_used = st.bridge_used]
            /\ IF st.bridge_used
               THEN /\ data' = [data EXCEPT !["arp"] = st.arp]
                    /\ log' = [log EXCEPT ![t] = @ \o <<"fetch:/ip/arp">> \o wrote
                                                   \o <<"call:update_bridge_hosts">>]
                    /\ pc' = [pc EXCEPT ![t] = "update_bridge_hosts"]
               ELSE /\ data' = [data EXCEPT !["arp"] = st.arp,
                                            !["interface"] = map_arp(@, st.arp)]
                    /\ log' = [log EXCEPT ![t] = @ \o <<"fetch:/ip/arp">> \o wrote
                                                   \o map_arp_events(data["interface"], st.arp)]
                    /\ pc' = [pc EXCEPT ![t] = "done"]
    /\ UNCHANGED <<listeners, unsubscribed, option_track_arp, entry, fault>>

\* update_bridge_hosts, lines 295-323, from the reply of its executor job, and
\* back in get_interface_client, lines 240-248
update_bridge_hosts_reply(t) ==
    /\ pc[t] = "update_bridge_hosts"
    /\ \E batch \in Batches(RawBridgeHost) :
        LET arp == update_bridge_hosts(data["arp"], locals[t].mac2ip, data["interface"], batch)
            wrote == IF arp = data["arp"] THEN <<>> ELSE <<"write:arp">>
        IN  /\ reply' = [path |-> "/interface/bridge/host", data |-> batch]
            /\ data' = [data EXCEPT !["arp"] = arp, !["interface"] = map_arp(@, arp)]
            /\ log' = [log EXCEPT ![t] = @ \o <<"fetch:/interface/bridge/host">> \o wrote
                                           \o map_arp_events(data["interface"], arp)]
    /\ pc' = [pc EXCEPT ![t] = "done"]
    /\ UNCHANGED <<listeners, unsubscribed, option_track_arp, entry, locals, fault>>

\* get_nat, lines 341-365
call_get_nat ==
    /\ Free(Caller)
    /\ \E batch \in Batches(RawNat) :
        LET r == get_nat(data["nat"], batch)
        IN  /\ data' = [data EXCEPT !["nat"] = r.val]
            /\ reply' = [path |-> "/ip/firewall/nat", data |-> batch]
            /\ log' = [log EXCEPT ![Caller] = <<"call:get_nat", "fetch:/ip/firewall/nat">>
                          \o (IF r.val = data["nat"] THEN <<>> ELSE <<"write:nat">>)]
            /\ fault' = [fault EXCEPT ![Caller] = r.exc]
            /\ pc' = [pc EXCEPT ![Caller] = IF r.exc = None THEN "done" ELSE "raised"]
    /\ entry' = [entry EXCEPT ![Caller] = "get_nat"]
    /\ locals' = [locals EXCEPT ![Caller] = NoLocals]
    /\ UNCHANGED <<listeners, unsubscribed, option_track_arp>>

\* get_system_resource, lines 387-409
call_get_system_resource ==
    /\ Free(Caller)
    /\ \E batch \in Batches(RawResource) :
        LET r == get_system_resource(data["resource"], batch)
        IN  /\ data' = [data EXCEPT !["resource"] = r.val]
            /\ reply' = [path |-> "/system/resource", data |-> batch]
            /\ log' = [log EXCEPT ![Caller] = <<"call:get_system_resource", "fetch:/system/resource">>
                          \o (IF batch = <<>> THEN <<>> ELSE <<"write:resource">>)]
            /\ fault' = [fault EXCEPT ![Caller] = r.exc]
            /\ pc' = [pc EXCEPT ![Caller] = IF r.exc = None THEN "done" ELSE "raised"]
    /\ entry' = [entry EXCEPT ![Caller] = "get_system_resource"]
    /\ locals' = [locals EXCEPT ![Caller] = NoLocals]
    /\ UNCHANGED <<listeners, unsubscribed, option_track_arp>>

\* get_system_routerboard, lines 370-382
call_get_system_routerboard ==
    /\ CallerStarts("get_system_routerboard")
    /\ \E batch \in Batches(RawRouterboard) :
        /\ data' = [data EXCEPT !["routerboard"] = get_system_routerboard(@, batch)]
        /\ reply' = [path |-> "/system/routerboard", data |-> batch]
        /\ log' = [log EXCEPT ![Caller] = <<"call:get_system_routerboard", "fetch:/system/routerboard">>
                      \o (IF batch = <<>> THEN <<>> ELSE <<"write:routerboard">>)]
    /\ pc' = [pc EXCEPT ![Caller] = "done"]
    /\ locals' = [locals EXCEPT ![Caller] = NoLocals]
    /\ UNCHANGED <<listeners, unsubscribed, option_track_arp>>

\* get_firmware_update, lines 414-429
call_get_firmware_update ==
    /\ CallerStarts("get_firmware_update")
    /\ \E batch \in Batches(RawFirmware) :
        /\ data' = [data EXCEPT !["fw-update"] = get_firmware_update(@, batch)]
        /\ reply' = [path |-> "/system/package/update", data |-> batch]
        /\ log' = [log EXCEPT ![Caller] = fw_events(batch)]
    /\ pc' = [pc EXCEPT ![Caller] = "done"]
    /\ locals' = [locals EXCEPT ![Caller] = NoLocals]
    /\ UNCHANGED <<listeners, unsubscribed, option_track_arp>>

\* get_script, lines 434-456
call_get_script ==
    /\ CallerStarts("get_script")
    /\ \E batch \in Batches(RawScript) :
        /\ data' = [data EXCEPT !["script"] = get_script(@, batch)]
        /\ reply' = [path |-> "/system/script", data |-> batch]
        /\ log' = [log EXCEPT ![Caller] = <<"call:get_script", "fetch:/system/script">>
                      \o (IF get_script(data["script"], batch) = data["script"] THEN <<>>
                          ELSE <<"write:script">>)]
    /\ pc' = [pc EXCEPT ![Caller] = "done"]
    /\ locals' = [locals EXCEPT ![Caller] = NoLocals]
    /\ UNCHANGED <<listeners, unsubscribed, option_track_arp>>

\* ---------------------------------------------------------------- methods awaited to their end
\* get_interface, lines 165-194, awaited by a caller that nothing interleaves
\* with: call_get_interface and get_interface_reply in one step
await_get_interface ==
    /\ Free(Caller)
    /\ \E batch \in Batches(RawInterface) :
        /\ data' = [data EXCEPT !["interface"] = merge_interface(@, batch)]
        /\ reply' = [path |-> "/interface", data |-> batch]
    /\ log' = [log EXCEPT ![Caller] = <<"call:get_interface", "fetch:/interface", "write:interface">>]
    /\ entry' = [entry EXCEPT ![Caller] = "get_interface"]
    /\ fault' = [fault EXCEPT ![Caller] = "NameError"]
    /\ pc' = [pc EXCEPT ![Caller] = "raised"]
    /\ locals' = [locals EXCEPT ![Caller] = NoLocals]
    /\ UNCHANGED <<listeners, unsubscribed, option_track_arp>>

\* get_interface_client, lines 222-248, as a function of the tables, the
\* option and the two replies: [data, fetched], fetched being the replies the
\* pass asked for
get_interface_client(d, track, arp_batch, host_batch) ==
    IF ~track
    THEN [data |-> [d EXCEPT !["arp"] = reset_arp(@), !["interface"] = disable_clients(@)],
          fetched |-> <<>>]
    ELSE LET st == update_arp([arp |-> reset_arp(d["arp"]), mac2ip |-> EmptyDict,
                               bridge_used |-> FALSE], d["interface"], arp_batch)
             arp == IF st.bridge_used
                    THEN update_bridge_hosts(st.arp, st.mac2ip, d["interface"], host_batch)
                    ELSE st.arp
         IN  [data |-> [d EXCEPT !["arp"] = arp, !["interface"] = map_arp(@, arp)],
              fetched |-> IF st.bridge_used THEN <<arp_batch, host_batch>> ELSE <<arp_batch>>]

\* lines 261-266: the batch has a valid record on the bridge
SeesBridge(arp_batch) ==
    \E i \in 1..Len(arp_batch) : ~arp_batch[i]["invalid"] /\ arp_batch[i]["interface"] = "bridge"

\* the replies of an endpoint that is asked, and no reply of one that is not
Fetched(asked, batches) == IF asked THEN batches ELSE {<<>>}

\* get_interface_client awaited by a caller that nothing interleaves with:
\* call_get_interface_client, update_arp_reply and update_bridge_hosts_reply
\* in one step
await_get_interface_client ==
    /\ Free(Caller)
    /\ \E arp_batch \in Fetched(option_track_arp, Batches(RawArp)) :
        \E host_batch \in Fetched(option_track_arp /\ SeesBridge(arp_batch), Batches(RawBridgeHost)) :
            LET r == get_interface_client(data, option_track_arp, arp_batch, host_batch)
            IN  /\ data' = r.data
                /\ reply' = [path |-> "get_interface_client", data |-> r.fetched]
    /\ log' = [log EXCEPT ![Caller] = <<"call:get_interface_client", "write:arp">>]
    /\ entry' = [entry EXCEPT ![Caller] = "get_interface_client"]
    /\ fault' = [fault EXCEPT ![Caller] = None]
    /\ pc' = [pc EXCEPT ![Caller] = "done"]
    /\ locals' = [locals EXCEPT ![Caller] = NoLocals]
    /\ UNCHANGED <<listeners, unsubscribed, option_track_arp>>

\* ---------------------------------------------------------------- the listeners
\* a platform stores the unsubscribe callback of a subscription it made in
\* self.listeners; every subscription has a callback of its own
subscribe ==
    /\ Len(listeners) + Len(unsubscribed) < MaxListeners
    /\ listeners' = Append(listeners, Len(listeners) + Len(unsubscribed) + 1)
    /\ reply' = NoReply
    /\ UNCHANGED <<data, unsubscribed, option_track_arp, pc, entry, locals, log, fault>>

\* a variant of line 145 that leaves the list as it is
reset_listeners_kept(l) == l

\* line 145
reset_listeners(l) == <<>>

\* async_reset, lines 140-146: it has no suspension; every callback of the
\* list is called in turn, then the list is replaced
async_reset ==
    /\ CallerStarts("async_reset")
    /\ unsubscribed' = unsubscribed \o listeners
    /\ listeners' = reset_listeners(listeners)
    /\ log' = [log EXCEPT ![Caller] = <<"call:async_reset">>]
    /\ pc' = [pc EXCEPT ![Caller] = "done"]
    /\ locals' = [locals EXCEPT ![Caller] = NoLocals]
    /\ reply' = NoReply
    /\ UNCHANGED <<data, option_track_arp>>

\* ---------------------------------------------------------------- specifications
\* the two timers, firing independently
NextTimers ==
    \/ \E t \in Timers : force_update(t)
    \/ \E t \in Timers : get_interface_reply(t)
    \/ \E t \in Timers : force_fwupdate_check(t)

SpecTimers == Init /\ [][NextTimers]_vars

\* the interface merge and the client-resolution pass
NextClient ==
    \/ call_get_interface
    \/ get_interface_reply(Caller)
    \/ update_options
    \/ call_get_interface_client
    \/ update_arp_reply(Caller)
    \/ update_bridge_hosts_reply(Caller)

SpecClient == Init /\ [][NextClient]_vars

\* the singleton records, and the hourly firmware timer
NextSummary ==
    \/ call_get_system_resource
    \/ call_get_system_routerboard
    \/ call_get_firmware_update
    \/ \E t \in Timers : force_fwupdate_check(t)

SpecSummary == Init /\ [][NextSummary]_vars

\* the tables merged by key
NextTables ==
    \/ call_get_interface
    \/ get_interface_reply(Caller)
    \/ call_get_nat
    \/ call_get_script

SpecTables == Init /\ [][NextTables]_vars

\* the interface table: its merge, the traffic merge, and the marking of the
\* clients by a pass with tracking disabled
NextInterface ==
    \/ call_get_interface
    \/ get_interface_reply(Caller)
    \/ call_get_interface_traffic
    \/ get_interface_traffic_reply(Caller)
    \/ update_options
    \/ ~option_track_arp /\ call_get_interface_client

SpecInterface == Init /\ [][NextInterface]_vars

\* the tables outside `ks` are as __init__ left them
Untouched(ks) ==
    \A k \in (DOMAIN data) \ ks :
        IF k = "interface" THEN data[k] = EmptyTable ELSE data[k] = EmptyDict

\* every state-updating step, each awaited to its end and run any number of
\* times.  No step reads a table but its own (the client pass: the interface
\* and ARP tables), so a behaviour works on one of them
NextRerun ==
    \/ Untouched({"interface", "arp"}) /\ await_get_interface
    \/ Untouched({"interface", "arp"}) /\ await_get_interface_client
    \/ Untouched({"interface", "arp"}) /\ update_options
    \/ Untouched({"nat"}) /\ call_get_nat
    \/ Untouched({"resource"}) /\ call_get_system_resource
    \/ Untouched({"script"}) /\ call_get_script
    \/ Untouched({"fw-update"}) /\ call_get_firmware_update

SpecRerun == Init /\ [][NextRerun]_vars

\* subscriptions and resets, among steps that fill two tables
NextReset ==
    \/ subscribe
    \/ async_reset
    \/ call_get_system_routerboard
    \/ call_get_firmware_update

SpecReset == Init /\ [][NextReset]_vars

\* ---------------------------------------------------------------- what the claims speak of
Interface == data["interface"]
Arp == data["arp"]
Indices(batch) == 1..Len(batch)

\* the task has `event` in its log
Did(t, event) == \E i \in Indices(log[t]) : log[t][i] = event

\* the calling task has just started `name`
Starts(name) ==
    /\ Free(Caller)
    /\ option_track_arp' = option_track_arp
    /\ log'[Caller] # <<>>
    /\ Head(log'[Caller]) = "call:" \o name

\* a client-resolution pass of the calling task has returned
PassOver == entry[Caller] = "get_interface_client" /\ pc[Caller] = "done"

\* an ARP record that is neither invalid nor on the bridge
ArpValid(e) == ~e["invalid"] /\ e["interface"] # "bridge"

\* the records of the batch that are written to the ARP entry of uid
ArpHits(batch, uid) ==
    {i \in Indices(batch) : ArpValid(batch[i]) /\ get_iface_from_entry(Interface, batch[i]) = uid}

\* the bridge hosts of the batch that are written to the ARP entry of uid
HostHits(batch, uid) ==
    {i \in Indices(batch) : ~batch[i]["local"] /\ get_iface_from_entry(Interface, batch[i]) = uid}

\* ---------------------------------------------------------------- C1
\* C1: right after the ARP ingest of a pass, an interface that two or more
\* valid, non-bridge records of the fetched batch resolve to has the ARP entry
\* mac-address = address = "multiple", in whatever order the records came;
\* an interface that exactly one such record resolves to holds that record's
\* MAC and IP.
C1_ArpConflictCollapsing ==
    reply.path = "/ip/arp" =>
        \A uid \in Keys(Interface) :
            LET hits == ArpHits(reply.data, uid)
            IN  /\ Cardinality(hits) >= 2 =>
                    /\ uid \in DOMAIN Arp
                    /\ Arp[uid]["mac-address"] = "multiple"
                    /\ Arp[uid]["address"] = "multiple"
                /\ Cardinality(hits) = 1 =>
                    /\ uid \in DOMAIN Arp
                    /\ \A i \in hits :
                        /\ Arp[uid]["mac-address"] = reply.data[i]["mac-address"]
                        /\ Arp[uid]["address"] = reply.data[i]["address"]

\* two records with different MACs resolved to one interface, which was
\* collapsed, while another record alone resolved to another interface
C1_Witness ==
    /\ reply.path = "/ip/arp"
    /\ \E uid \in Keys(Interface) :
        /\ \E i, j \in ArpHits(reply.data, uid) :
            reply.data[i]["mac-address"] # reply.data[j]["mac-address"]
        /\ Arp[uid]["mac-address"] = "multiple"

\* ---------------------------------------------------------------- C2
\* C2: a pass started with tracking disabled returns in the same step, with
\* client-ip-address and client-mac-address of every interface equal to
\* "disabled", and has fetched neither /ip/arp nor /interface/bridge/host.
C2_DisabledTracking ==
    [][(Starts("get_interface_client") /\ ~option_track_arp) =>
        /\ pc'[Caller] = "done"
        /\ reply' = NoReply
        /\ \A i \in Indices(log'[Caller]) :
            log'[Caller][i] \notin {"fetch:/ip/arp", "fetch:/interface/bridge/host"}
        /\ \A uid \in Keys(data'["interface"]) :
            /\ data'["interface"].rows[uid]["client-ip-address"] = "disabled"
            /\ data'["interface"].rows[uid]["client-mac-address"] = "disabled"]_vars

\* a pass that found tracking disabled has returned over two interfaces
C2_Witness ==
    /\ PassOver
    /\ ~option_track_arp
    /\ reply = NoReply
    /\ ~Did(Caller, "call:update_arp")
    /\ Cardinality(Keys(Interface)) = 2
    /\ \A uid \in Keys(Interface) :
        /\ Interface.rows[uid]["client-ip-address"] = "disabled"
        /\ Interface.rows[uid]["client-mac-address"] = "disabled"

\* ---------------------------------------------------------------- C9
\* C9: a pass starts from an empty ARP table, and every entry that a step
\* creates or changes is the entry of an interface that a record fetched in
\* that step resolves to; so after a pass with tracking disabled, or whose
\* ARP fetch returned nothing or nothing that resolves, the table is empty.
C9_Rebuilt ==
    /\ Starts("get_interface_client") => data'["arp"] = EmptyDict
    /\ \A uid \in DOMAIN data'["arp"] :
        (uid \notin DOMAIN Arp \/ data'["arp"][uid] # Arp[uid]) =>
            \/ reply'.path = "/ip/arp" /\ ArpHits(reply'.data, uid) # {}
            \/ reply'.path = "/interface/bridge/host" /\ HostHits(reply'.data, uid) # {}

C9_EmptyAfter ==
    PassOver =>
        /\ ~Did(Caller, "call:update_arp") => Arp = EmptyDict
        /\ (reply.path = "/ip/arp" /\ \A uid \in Keys(Interface) : ArpHits(reply.data, uid) = {})
              => Arp = EmptyDict

\* C9: every step rebuilds the ARP table as above, and the table is empty
\* after every pass that wrote nothing to it.
C9_ArpIsPerCycleSnapshot == [][C9_Rebuilt]_vars /\ []C9_EmptyAfter

\* a pass whose ARP fetch returned nothing has left the table empty, over an
\* interface that still shows the client an earlier pass resolved
C9_Witness ==
    /\ PassOver
    /\ reply = [path |-> "/ip/arp", data |-> <<>>]
    /\ Arp = EmptyDict
    /\ \E uid \in Keys(Interface) : Interface.rows[uid]["client-mac-address"] \notin {"", "disabled"}

\* ---------------------------------------------------------------- C3
Available(d) == "available" \in DOMAIN d["fw-update"] /\ d["fw-update"]["available"]

\* the batch holds a record whose status is not the new-version string
OtherStatus(batch) ==
    \E i \in Indices(batch) : "status" \in DOMAIN batch[i] /\ batch[i]["status"] # NewVersion

\* C3: once fw-update.available is true, a step leaves it true unless the
\* step is a firmware check that fetched a record whose status field differs
\* from "New version is available"; a check that fetched nothing, or only
\* records without a status field, leaves it true.
C3_FirmwareStickiness ==
    [][Available(data) =>
        \/ Available(data')
        \/ reply'.path = "/system/package/update" /\ OtherStatus(reply'.data)]_vars

\* a check has just merged a record without a status field, and the
\* availability found earlier is still true
C3_Witness ==
    /\ reply.path = "/system/package/update"
    /\ reply.data # <<>>
    /\ \A i \in Indices(reply.data) : "status" \notin DOMAIN reply.data[i]
    /\ data["fw-update"]["channel"] = "testing"
    /\ Available(data)

\* ---------------------------------------------------------------- C4
ZeroTotal(e, total, free) == total \in DOMAIN e /\ free \in DOMAIN e /\ e[total] = 0

\* C4: a resource step whose fetched record has total-memory (total-hdd-space)
\* present and 0, with its free counter, does not fault and leaves
\* memory-usage (hdd-usage) = "unknown"; a total of 1000 with 250 free gives 75.
C4_ZeroTotalGuard ==
    (reply.path = "/system/resource" /\ reply.data # <<>>) =>
        LET e == reply.data[Len(reply.data)]
            res == data["resource"]
        IN  /\ fault[Caller] = None
            /\ ZeroTotal(e, "total-memory", "free-memory") =>
                  res["memory-usage"] = PyStr("unknown")
            /\ ZeroTotal(e, "total-hdd-space", "free-hdd-space") =>
                  res["hdd-usage"] = PyStr("unknown")
            /\ ("total-memory" \in DOMAIN e /\ "free-memory" \in DOMAIN e
                /\ e["total-memory"] = 1000 /\ e["free-memory"] = 250) =>
                  res["memory-usage"] = PyInt(75)

\* ---------------------------------------------------------------- C5
Script == data["script"]

\* the non-empty names of the batch's records
ScriptNames(batch) ==
    {batch[i]["name"] : i \in {j \in Indices(batch) :
                                 "name" \in DOMAIN batch[j] /\ batch[j]["name"] # ""}}

C5_NoEmptyKey ==
    /\ "" \notin DOMAIN Script
    /\ reply.path = "/system/script" =>
        /\ pc[Caller] = "done"
        /\ fault[Caller] = None
        /\ \A n \in ScriptNames(reply.data) : n \in DOMAIN Script /\ Script[n]["name"] = n

C5_KeysAreFetchedNames ==
    DOMAIN data'["script"] \subseteq
        DOMAIN Script \cup (IF reply'.path = "/system/script" THEN ScriptNames(reply'.data) ELSE {})

\* C5: the script table never has the key "", every key it gains in a step
\* is the non-empty name of a record fetched in that step, and a script step
\* returns without an exception with every named record of its batch merged,
\* whatever nameless records the batch holds.
C5_ScriptRejection == []C5_NoEmptyKey /\ [][C5_KeysAreFetchedNames]_vars

\* a batch with a nameless record before a named one has been merged
C5_Witness ==
    /\ reply.path = "/system/script"
    /\ Len(reply.data) = 2
    /\ script_skipped(reply.data[1])
    /\ ~script_skipped(reply.data[2])
    /\ reply.data[2]["name"] \in DOMAIN Script
    /\ pc[Caller] = "done"

\* ---------------------------------------------------------------- C6
Steps ==
    <<"call:get_interface", "call:get_interface_traffic", "call:get_interface_client",
      "call:get_nat", "call:get_system_resource", "call:get_script">>

IsStep(event) == \E i \in Indices(Steps) : Steps[i] = event
IsWrite(event) == event \in WriteEvents
Count(l, P(_)) == Len(SelectSeq(l, P))
IsSignal(event) == event = SIGNAL

\* the timer task ran, and has returned or raised
CycleOver(t) == entry[t] \in {"force_update", "force_fwupdate_check"} /\ Free(t)

\* C6: a fast cycle that has ended has entered the six steps once each, in
\* the order interfaces, traffic, client resolution, NAT, resource, scripts,
\* has not raised, and has the change notification as its last act.
C6_FastCycleStepOrder ==
    \A t \in Timers :
        (entry[t] = "force_update" /\ CycleOver(t)) =>
            /\ SelectSeq(log[t], IsStep) = Steps
            /\ pc[t] = "done"
            /\ log[t][Len(log[t])] = SIGNAL

\* ---------------------------------------------------------------- C7
\* C7: a cycle that has ended has sent the change notification exactly once;
\* a cycle that has sent it has ended, and wrote nothing after sending it.
C7_OneNotificationPerCycle ==
    \A t \in Timers :
        /\ CycleOver(t) => Count(log[t], IsSignal) = 1
        /\ (entry[t] \in {"force_update", "force_fwupdate_check"} /\ Did(t, SIGNAL)) =>
              /\ pc[t] = "done"
              /\ log[t][Len(log[t])] = SIGNAL

\* ---------------------------------------------------------------- C8
\* the cycle has written shared state and is suspended before its next write:
\* a timer task is suspended only at the executor job of get_interface, whose
\* reply is assigned to the interface table
MidCycle(t) == ~Free(t) /\ Count(log[t], IsWrite) > 0

\* the step is a step of task u that writes shared state
StepWrites(u) ==
    IF Free(u) THEN log'[u] # log[u] /\ Count(log'[u], IsWrite) > 0
    ELSE Count(log'[u], IsWrite) > Count(log[u], IsWrite)

\* C8: no cycle writes shared state while another cycle is between two of
\* its own writes.
C8_NoOverlappingCycles ==
    [][\A t, u \in Timers : (t # u /\ MidCycle(t)) => ~StepWrites(u)]_vars

\* ---------------------------------------------------------------- C10
\* the keys named by the records of the step's reply, for the table merged
\* from `path` by `field`
BatchKeys(path, field) ==
    IF reply'.path # path THEN {}
    ELSE {reply'.data[i][field] : i \in {j \in Indices(reply'.data) : field \in DOMAIN reply'.data[j]}}

\* rows `new` keep every key of rows `old`, and every row whose key is not in `keys`
Kept(old, new, keys) ==
    \A k \in DOMAIN old : k \in DOMAIN new /\ (k \notin keys => new[k] = old[k])

\* C10: a step removes no key from the interface, NAT or script table, and
\* leaves every row unchanged whose key no record of the batch merged in that
\* step names.
C10_MergeNeverDeletes ==
    [][/\ Kept(Interface.rows, data'["interface"].rows, BatchKeys("/interface", "default-name"))
       /\ Kept(data["nat"], data'["nat"], BatchKeys("/ip/firewall/nat", ".id"))
       /\ Kept(Script, data'["script"], BatchKeys("/system/script", "name"))]_vars

\* a NAT batch naming only rule *2 has been merged into a table holding rule
\* *1, over an interface table and a script table that hold rows too
C10_Witness ==
    /\ reply.path = "/ip/firewall/nat"
    /\ reply.data # <<>>
    /\ \A i \in Indices(reply.data) : reply.data[i][".id"] = "*2"
    /\ "*2" \in DOMAIN data["nat"]
    /\ "*1" \in DOMAIN data["nat"] /\ data["nat"]["*1"]["protocol"] = "udp"
    /\ Keys(Interface) # {}
    /\ DOMAIN Script # {}

\* ---------------------------------------------------------------- C11
\* the step is the step of the state before it, run again: the same method
\* has fetched the same records under the same option
RunAgain ==
    /\ reply.path # None
    /\ reply'.path = reply.path
    /\ reply'.data = reply.data
    /\ entry'[Caller] = entry[Caller]
    /\ option_track_arp' = option_track_arp

\* C11: a state-updating step (interface merge, client resolution, NAT,
\* resource, scripts, firmware) that runs a second time with the records and
\* the option of its first run leaves every table as the first run left it.
C11_IdempotentRerun == [][RunAgain => data' = data]_vars

\* a client pass has resolved one client each to two interfaces, from ARP and
\* bridge-host records; a pass that kept the entries would collapse them
C11_Witness ==
    /\ reply.path = "get_interface_client"
    /\ Len(reply.data) = 2
    /\ Cardinality(DOMAIN Arp) = 2
    /\ \A uid \in DOMAIN Arp :
        /\ Arp[uid]["mac-address"] # "multiple"
        /\ Interface.rows[uid]["client-mac-address"] = Arp[uid]["mac-address"]

\* ---------------------------------------------------------------- C12
\* how many times the callback is in the sequence
Times(id, calls) == Cardinality({i \in Indices(calls) : calls[i] = id})

\* the callbacks handed out so far
Callbacks == 1..MaxListeners

\* the step is a run of async_reset, and not a subscription made after one
Resets == Starts("async_reset") /\ Len(listeners') <= Len(listeners)

C12_ResetStep ==
    Resets =>
        /\ listeners' = <<>>
        /\ \A id \in Callbacks :
            Times(id, unsubscribed') = Times(id, unsubscribed) + Times(id, listeners)
        /\ listeners = <<>> => unsubscribed' = unsubscribed
        /\ pc'[Caller] = "done"
        /\ fault'[Caller] = None
        /\ data' = data

C12_CalledOnce ==
    \A id \in Callbacks :
        Times(id, unsubscribed) + Times(id, listeners) <= 1

\* C12: async_reset calls every callback of the list once, empties the list,
\* does not raise and changes no table; with an empty list it calls nothing.
\* So over any resets, repeated ones included, no callback is called twice.
C12_ResetIdempotent == [][C12_ResetStep]_vars /\ []C12_CalledOnce

\* async_reset has returned with the list empty and two callbacks called,
\* over tables that hold data
C12_Witness ==
    /\ entry[Caller] = "async_reset"
    /\ pc[Caller] = "done"
    /\ listeners = <<>>
    /\ Len(unsubscribed) = 2
    /\ log[Caller] = <<"call:async_reset">>
    /\ data["routerboard"] # EmptyDict
    /\ data["fw-update"] # EmptyDict

\* ---------------------------------------------------------------- C13
\* the fields that get_interface passes as ensure_vals
EnsureFields == {interface_ensure_vals[i].name : i \in Indices(interface_ensure_vals)}

\* the default that the ensure rule of the field gives
EnsureDefault(f) ==
    LET v == CHOOSE v \in {interface_ensure_vals[i] : i \in Indices(interface_ensure_vals)} : v.name = f
    IN  IF "default" \in DOMAIN v THEN v.default ELSE ""

\* the row holds a traffic rate or a client other than the ensure default
NonDefault(row) ==
    \/ row["rx-bits-per-second"] # 0
    \/ row["tx-bits-per-second"] # 0
    \/ row["client-ip-address"] # ""
    \/ row["client-mac-address"] # ""

\* C13: an interface merge leaves the traffic rates and the client fields of
\* every interface already in the table as they were, and gives them their
\* ensure defaults in the rows it creates.
C13_EnsureOnlyOnCreation ==
    [][reply'.path = "/interface" =>
        \A uid \in Keys(data'["interface"]) :
            \A f \in EnsureFields :
                data'["interface"].rows[uid][f] =
                    IF uid \in Keys(Interface) THEN Interface.rows[uid][f] ELSE EnsureDefault(f)]_vars

\* an interface merge has just rewritten the display name of ether1, which
\* still has the rate 500 of an earlier traffic merge and the client mark of
\* an earlier pass, and has created ether2
C13_Witness ==
    /\ reply.path = "/interface"
    /\ Len(reply.data) = 2
    /\ Keys(Interface) = {"ether1", "ether2"}
    /\ Interface.rows["ether1"]["name"] = "wan"
    /\ Interface.rows["ether1"]["rx-bits-per-second"] = 500
    /\ Interface.rows["ether1"]["client-mac-address"] = "disabled"
    /\ ~NonDefault(Interface.rows["ether2"])

\* ---------------------------------------------------------------- C14
\* the step starts a fast cycle on timer task t
StartsCycle(t) == Free(t) /\ entry'[t] = "force_update" /\ pc'[t] = "get_interface"

\* where the event is in the log the task has after the step; 0 if nowhere
Position(t, event) ==
    LET at == {i \in 1..Len(log'[t]) : log'[t][i] = event}
    IN  IF at = {} THEN 0 ELSE CHOOSE i \in at : \A j \in at : i <= j

\* the firmware record has an availability
HasAvailable(d) == "available" \in DOMAIN d["fw-update"]

C14_Inline ==
    \A t \in Timers :
        StartsCycle(t) =>
            /\ Position(t, "fetch:/system/package/update") # 0 <=> ~HasAvailable(data)
            /\ Position(t, "fetch:/system/package/update") < Position(t, "call:get_interface")
            /\ Position(t, "fetch:/interface") = 0

C14_Kept == HasAvailable(data) => HasAvailable(data')

C14_Written == data["fw-update"] # EmptyDict => HasAvailable(data)

\* C14: a fast cycle fetches the firmware status, before it asks for the
\* interfaces, exactly when the firmware record has no availability as the
\* cycle starts; no step removes the availability, and every check that
\* fetched a record has written it, so no later fast cycle checks again.
C14_BootstrapFirmwareCheck == [][C14_Inline /\ C14_Kept]_vars /\ []C14_Written

\* a second fast cycle has started without a firmware check, after a first
\* one whose inline check fetched a record without a status
C14_Witness ==
    /\ pc[1] = "raised"
    /\ Did(1, "write:fw-update")
    /\ pc[2] = "get_interface"
    /\ ~Did(2, "fetch:/system/package/update")
    /\ data["fw-update"]["channel"] = "testing"
    /\ ~data["fw-update"]["available"]

\* ---------------------------------------------------------------- C20
\* the step is a slow-cycle firing on timer task t: the task was free, has run
\* force_fwupdate_check, and no other task has moved
SlowCycle(t) ==
    /\ FirstFree(t)
    /\ entry'[t] = "force_fwupdate_check"
    /\ \A u \in Tasks \ {t} : pc'[u] = pc[u] /\ log'[u] = log[u] /\ entry'[u] = entry[u]

C20_Frame ==
    \A t \in Timers :
        SlowCycle(t) =>
            /\ \A k \in (DOMAIN data) \ {"fw-update"} : data'[k] = data[k]
            /\ listeners' = listeners
            /\ pc'[t] = "done"
            /\ data'["fw-update"] = get_firmware_update(data["fw-update"], reply'.data)

C20_NeverSuspended ==
    \A t \in Timers : entry[t] = "force_fwupdate_check" => pc[t] = "done"

\* C20: a slow-cycle firing changes the firmware record only, and reads,
\* merges and writes it in one step: it is never found suspended, so no step
\* of a fast cycle falls between its read and its write.
C20_SlowCycleFirmwareOnly == [][C20_Frame]_vars /\ []C20_NeverSuspended

\* a slow cycle has run to its end and written the firmware record while a
\* fast cycle is suspended at its interface fetch, over a table of interfaces
C20_Witness ==
    /\ entry[2] = "force_fwupdate_check"
    /\ pc[2] = "done"
    /\ Did(2, "write:fw-update")
    /\ pc[1] = "get_interface"
    /\ Keys(Interface) # {}
    /\ reply.path = "/system/package/update"

\* ---------------------------------------------------------------- C15
\* a valid ARP record on the bridge
OnBridge(e) == ~e["invalid"] /\ e["interface"] = "bridge"

\* the valid bridge records of the batch that carry a MAC and an IP
Diverted(batch) ==
    {i \in Indices(batch) : /\ OnBridge(batch[i])
                            /\ "mac-address" \in DOMAIN batch[i]
                            /\ "address" \in DOMAIN batch[i]}

\* the ARP ingest of the step: the table is the one the valid records off the
\* bridge give alone, the side table maps the MACs of the valid bridge records
\* to the IP of the last record of each, and the bridge hosts are asked for
\* exactly when a valid bridge record was seen
C15_Ingest ==
    reply'.path = "/ip/arp" =>
        LET batch == reply'.data
            mac2ip == locals'[Caller].mac2ip
        IN  /\ data'["arp"] =
                  update_arp([arp |-> EmptyDict, mac2ip |-> EmptyDict, bridge_used |-> FALSE],
                             Interface, SelectSeq(batch, ArpValid)).arp
            /\ DOMAIN mac2ip = {batch[i]["mac-address"] : i \in Diverted(batch)}
            /\ \A i \in Diverted(batch) :
                  (\A j \in Diverted(batch) :
                      batch[j]["mac-address"] = batch[i]["mac-address"] => j <= i)
                  => mac2ip[batch[i]["mac-address"]] = batch[i]["address"]
            /\ locals'[Caller].bridge_used <=> \E i \in Indices(batch) : OnBridge(batch[i])
            /\ pc'[Caller] = IF locals'[Caller].bridge_used THEN "update_bridge_hosts" ELSE "done"

\* the bridge hosts are fetched only by a pass that has finished its ARP
\* ingest and has seen the bridge
C15_HostsAfterIngest ==
    reply'.path = "/interface/bridge/host" =>
        /\ pc[Caller] = "update_bridge_hosts"
        /\ locals[Caller].bridge_used
        /\ log[Caller][Len(log[Caller])] = "call:update_bridge_hosts"
        /\ Did(Caller, "fetch:/ip/arp")

\* a pass with tracking enabled that has returned fetched the bridge hosts if
\* and only if it saw the bridge
C15_HostsIffBridge ==
    (PassOver /\ Did(Caller, "call:update_arp")) =>
        (Did(Caller, "fetch:/interface/bridge/host") <=> locals[Caller].bridge_used)

\* C15: a valid ARP record on the bridge writes nothing to the ARP table, only
\* its MAC and IP to the side table; an invalid record writes nothing at all;
\* and a pass fetches the bridge hosts, after its ARP ingest, if and only if
\* that ingest saw a valid record on the bridge.
C15_BridgeDiversion == [][C15_Ingest /\ C15_HostsAfterIngest]_vars /\ []C15_HostsIffBridge

\* a pass has returned whose ARP batch held a valid bridge record and a record
\* of ether1: the hosts were fetched, the bridge record is in the side table
\* alone, and the record of ether1 is in the ARP table alone
C15_Witness ==
    /\ PassOver
    /\ Did(Caller, "fetch:/interface/bridge/host")
    /\ reply = [path |-> "/interface/bridge/host", data |-> <<>>]
    /\ DOMAIN locals[Caller].mac2ip = {"M5"}
    /\ DOMAIN Arp = {"ether1"}
    /\ Arp["ether1"]["mac-address"] = "M1"

\* ---------------------------------------------------------------- C16
\* the entry that the host records of the step leave for uid, given the ARP
\* table and the side table the step started from
C16_Entry(uid, hits, batch) ==
    IF hits = {} THEN (uid \in DOMAIN data'["arp"] <=> uid \in DOMAIN Arp)
                      /\ (uid \in DOMAIN Arp => data'["arp"][uid] = Arp[uid])
    ELSE /\ uid \in DOMAIN data'["arp"]
         /\ data'["arp"][uid]["interface"] = uid
         /\ IF uid \in DOMAIN Arp \/ Cardinality(hits) >= 2
            THEN /\ data'["arp"][uid]["mac-address"] = "multiple"
                 /\ data'["arp"][uid]["address"] = "multiple"
            ELSE \A i \in hits :
                    LET mac == batch[i]["mac-address"]
                        mac2ip == locals[Caller].mac2ip
                    IN  /\ data'["arp"][uid]["mac-address"] = mac
                        /\ data'["arp"][uid]["address"] =
                              IF mac \in DOMAIN mac2ip THEN mac2ip[mac] ELSE ""

\* C16: after the bridge hosts are merged, an interface that a non-local host
\* record resolves to has "multiple" as MAC and address if it had an ARP entry
\* before or two host records resolve to it; otherwise it has the host's MAC
\* and the IP the side table gives for that MAC, or "" if it gives none.
\* An interface that no non-local host record resolves to keeps its entry, or
\* has none, as before: local records change nothing.
C16_BridgeHostMerge ==
    [][reply'.path = "/interface/bridge/host" =>
        /\ DOMAIN data'["arp"] \subseteq Keys(Interface)
        /\ \A uid \in Keys(Interface) :
              C16_Entry(uid, HostHits(reply'.data, uid), reply'.data)]_vars

\* the hosts merged were M5 on ether1, whose IP the side table had, and M7 on
\* the interface named wan, whose IP it had not
C16_Witness ==
    /\ reply.path = "/interface/bridge/host"
    /\ Len(reply.data) = 2
    /\ DOMAIN Arp = {"ether1", "ether2"}
    /\ Arp["ether1"]["mac-address"] = "M5"
    /\ Arp["ether1"]["address"] = "10.0.0.5"
    /\ Arp["ether2"]["mac-address"] = "M7"
    /\ Arp["ether2"]["address"] = ""

\* ---------------------------------------------------------------- C17
\* the record names an interface: some row has its interface as display name
Resolvable(e) == \E uid \in Keys(Interface) : Interface.rows[uid]["name"] = e["interface"]

C17_KeysAreInterfaces ==
    \A k \in DOMAIN Arp :
        /\ ~Falsy(k)
        /\ k \in Keys(Interface)
        /\ Interface.rows[k]["default-name"] = k
        /\ Arp[k]["interface"] = k

C17_Skipped ==
    reply'.path \in {"/ip/arp", "/interface/bridge/host"} =>
        /\ fault'[Caller] = None
        /\ pc'[Caller] # "raised"
        /\ (\A i \in Indices(reply'.data) : ~Resolvable(reply'.data[i])) => data'["arp"] = Arp

\* C17: a step that ingests ARP or bridge-host records raises nothing, and
\* writes nothing to the ARP table if no record names an interface of the
\* table; every key of the ARP table is the non-empty default-name of a row
\* of the interface table, and the entry's interface field is its key.
C17_UnresolvableSkipped == [][C17_Skipped]_vars /\ []C17_KeysAreInterfaces

\* an ARP batch of a record on ether1 and a record on wan has been ingested
\* while no interface was named wan: only ether1 has an entry
C17_Witness ==
    /\ reply.path = "/ip/arp"
    /\ Len(reply.data) = 2
    /\ reply.data[1]["interface"] = "wan"
    /\ ~Resolvable(reply.data[1])
    /\ Keys(Interface) = {"ether1"}
    /\ DOMAIN Arp = {"ether1"}

\* ---------------------------------------------------------------- C18
\* a client-resolution pass with tracking enabled has returned
TrackedPassOver == PassOver /\ Did(Caller, "call:update_arp")

\* C18: after a pass with tracking enabled, an interface with an ARP entry has
\* the entry's MAC and IP as its client, and an interface without one has the
\* defaults of its creation as its client: nothing an earlier pass resolved,
\* and not the "disabled" mark.
C18_ProjectionFrame ==
    TrackedPassOver =>
        \A uid \in Keys(Interface) :
            IF uid \in DOMAIN Arp
            THEN /\ Interface.rows[uid]["client-mac-address"] = Arp[uid]["mac-address"]
                 /\ Interface.rows[uid]["client-ip-address"] = Arp[uid]["address"]
            ELSE /\ Interface.rows[uid]["client-mac-address"] = EnsureDefault("client-mac-address")
                 /\ Interface.rows[uid]["client-ip-address"] = EnsureDefault("client-ip-address")

\* ---------------------------------------------------------------- C19
\* the endpoints of the NAT, resource, script and firmware steps
NoOpPaths == {"/ip/firewall/nat", "/system/resource", "/system/script", "/system/package/update"}

\* the step fetched from one of the four endpoints and got no record
EmptyFetch == reply'.path \in NoOpPaths /\ reply'.data = <<>>

C19_NoOp ==
    EmptyFetch =>
        /\ data' = data
        /\ \A t \in Tasks : pc'[t] = "raised" => pc[t] = "raised"

\* the cycle of timer task t has ended, and its firmware check fetched nothing
EndedAfterEmptyCheck(t) ==
    /\ CycleOver(t)
    /\ Did(t, "fetch:/system/package/update")
    /\ ~Did(t, "write:fw-update")

C19_CycleGoesOn ==
    \A t \in Timers :
        EndedAfterEmptyCheck(t) =>
            /\ pc[t] = "done"
            /\ log[t][Len(log[t])] = SIGNAL
            /\ entry[t] = "force_update" => SelectSeq(log[t], IsStep) = Steps

\* C19: a NAT, resource, script or firmware step that fetches no record
\* changes no table and raises nothing, and the cycle it is part of goes on
\* through its remaining steps to the notification.
C19_EmptyResultNoOp == [][C19_NoOp]_vars /\ []C19_CycleGoesOn

====
